---- MODULE Spec2Model ----
(***************************************************************************)
(* Model of src/js/split-grapheme.js: decomposition of Hangul syllables    *)
(* into initial / medial / final Jamo.                                     *)
(*                                                                         *)
(* A JavaScript string is modelled as a sequence of UTF-16 code units      *)
(* (naturals below 2^16); a JavaScript number that the program computes is *)
(* an integer, or an exact quotient of two integers where the source       *)
(* divides (see getMedialIndex).                                           *)
(***************************************************************************)
EXTENDS Integers, Sequences, FiniteSets, TLC

VARIABLES op, word, letter, unicode, pc, letters, idx, arr, codes, result, error

vars == <<op, word, letter, unicode, pc, letters, idx, arr, codes, result, error>>

(***************************************************************************)
(* Bounds of the model.                                                    *)
(***************************************************************************)
\* longest input string built from the sample code units
MaxLen == 3

\* largest UTF-16 code unit
MaxCodeUnit == 2^16 - 1

\* sample code units: 'a', '1', '|', U+3131, U+3148, U+314F (a vowel Jamo),
\* U+AC00, U+AE00, U+D55C, U+D7A3, a high surrogate U+D83D, a low surrogate
\* U+DE00
SampleUnits == {97, 49, 124, 12593, 12616, 12623, 44032, 44544, 54620, 55203,
                55357, 56832}

\* the input strings: every one-unit string, and every string of at most
\* MaxLen sample units
Strings == {<<u>> : u \in 0..MaxCodeUnit}
             \cup UNION {[1..n -> SampleUnits] : n \in 0..MaxLen}

\* a JavaScript value with its typeof tag: a number, or `undefined`
Num(n) == [type |-> "number", num |-> n]

Undefined == [type |-> "undefined", num |-> 0]

\* the arguments of a direct call of splitGrapheme
Values == {Num(n) : n \in 0..MaxCodeUnit} \cup {Undefined}

(***************************************************************************)
(* Constants of the program.                                               *)
(***************************************************************************)
korGAUnicode == 44032       \* 0xAC00

firstInitial == 4352        \* 0x1100

firstMedial == 4449         \* 0x1161

firstFinal == 4519          \* 0x11A7

initialCount == 18

medialCount == 21

finalCount == 28

(***************************************************************************)
(* JavaScript arithmetic.                                                  *)
(***************************************************************************)
\* a % b of JavaScript on integers, b > 0: the result has the sign of a
JSRem(a, b) == IF a >= 0 THEN a % b ELSE 0 - ((0 - a) % b)

\* Math.floor(n / d) for integers n and d > 0
MathFloor(n, d) == n \div d

\* typeof v === "number"
TypeofNumber(v) == v.type = "number"

\* surrogate code units
IsHighSurrogate(u) == u >= 55296 /\ u <= 56319

IsLowSurrogate(u) == u >= 56320 /\ u <= 57343

\* String.prototype.codePointAt(0) of a non-empty string
CodePointAt0(s) ==
  IF IsHighSurrogate(s[1]) /\ Len(s) > 1 /\ IsLowSurrogate(s[2])
    THEN (s[1] - 55296) * 1024 + (s[2] - 56320) + 65536
    ELSE s[1]

(***************************************************************************)
(* The functions of the program.                                           *)
(***************************************************************************)
\* String.fromCharCode(unicode): ToUint16 of the argument, one code unit
getLetterFromUnicode(u) == <<u % (2^16)>>

\* variant: the initial letter is looked up from the base of the medials
getInitialLetterWrongBase(u) == <<(u + 4449) % (2^16)>>

getInitialLetter(u) == getLetterFromUnicode(u + firstInitial)

getMedialLetter(u) == getLetterFromUnicode(u + firstMedial)

\* variant: the final letter is looked up from the base of the medials
getFinalLetterWrongBase(u) == <<(u + 4449) % (2^16)>>

getFinalLetter(u) == getLetterFromUnicode(u + firstFinal)

\* variant: the word is not spread, [word] instead of [...word]
splitWordWhole(w) == <<w>>

\* [...word]: the string iterator yields one code point at a time, a
\* surrogate pair as one two-unit string, anything else as a one-unit string
RECURSIVE splitWord(_)
splitWord(w) ==
  IF Len(w) = 0 THEN <<>>
  ELSE IF IsHighSurrogate(w[1]) /\ Len(w) > 1 /\ IsLowSurrogate(w[2])
    THEN <<SubSeq(w, 1, 2)>> \o splitWord(SubSeq(w, 3, Len(w)))
    ELSE <<SubSeq(w, 1, 1)>> \o splitWord(SubSeq(w, 2, Len(w)))

\* the character class [ㄱ-ㅎ|가-힣] of the regular expression, which has no
\* u flag and so is matched against single code units: U+3131..U+314E,
\* the character '|' (U+007C) and U+AC00..U+D7A3
InKoreanClass(u) ==
  \/ u >= 12593 /\ u <= 12622
  \/ u = 124
  \/ u >= 44032 /\ u <= 55203

\* letter.match(/[ㄱ-ㅎ|가-힣]/g) is not null
MatchKorean(l) == \E k \in 1..Len(l) : InKoreanClass(l[k])

\* getUnicode: [ok |-> FALSE] stands for the thrown Error
getUnicode(l) ==
  IF Len(l) # 1 THEN [ok |-> FALSE, error |-> "NotOneLetter"]
  ELSE [ok |-> TRUE, value |-> Num(CodePointAt0(l))]

\* variant: the divisor is initialCount * finalCount
getInitialIndexWrongCount(u) ==
  IF u.type # "number" THEN [ok |-> FALSE, error |-> "NotNumber"]
  ELSE [ok |-> TRUE, value |-> (u.num - 44032) \div (18 * 28)]

\* Math.floor((unicode - korGAUnicode) / (medialCount * finalCount))
getInitialIndex(u) ==
  IF ~TypeofNumber(u) THEN [ok |-> FALSE, error |-> "NotNumber"]
  ELSE [ok |-> TRUE,
        value |-> MathFloor(u.num - korGAUnicode, medialCount * finalCount)]

\* variant: the remainder by medialCount is left out
getMedialIndexNoRem(u) ==
  IF u.type # "number" THEN [ok |-> FALSE, error |-> "NotNumber"]
  ELSE [ok |-> TRUE, value |-> (u.num - 44032) \div 28]

\* Math.floor((unicode - korGAUnicode) / finalCount % medialCount): the
\* quotient q = (unicode - korGAUnicode) / finalCount is not rounded to an
\* integer before %, and q % medialCount is q - medialCount * trunc(q /
\* medialCount) = JSRem(unicode - korGAUnicode, finalCount * medialCount) /
\* finalCount.  (A double holds q to within 2^-53 relative error, q is either
\* an integer or at least 1/28 away from one, and % is exact, so the floor of
\* the double result is the floor of the exact result.)
getMedialIndex(u) ==
  IF ~TypeofNumber(u) THEN [ok |-> FALSE, error |-> "NotNumber"]
  ELSE [ok |-> TRUE,
        value |-> MathFloor(JSRem(u.num - korGAUnicode, finalCount * medialCount),
                            finalCount)]

\* variant: a remainder that is never negative
getFinalIndexEuclid(u) ==
  IF u.type # "number" THEN [ok |-> FALSE, error |-> "NotNumber"]
  ELSE [ok |-> TRUE, value |-> (u.num - 44032) % 28]

\* Math.floor((unicode - korGAUnicode) % finalCount)
getFinalIndex(u) ==
  IF ~TypeofNumber(u) THEN [ok |-> FALSE, error |-> "NotNumber"]
  ELSE [ok |-> TRUE,
        value |-> MathFloor(JSRem(u.num - korGAUnicode, finalCount), 1)]

\* splitGrapheme: the first primitive that throws ends the call
splitGrapheme(u) ==
  LET i == getInitialIndex(u)
      m == getMedialIndex(u)
      f == getFinalIndex(u)
  IN  IF ~i.ok THEN i
      ELSE IF ~m.ok THEN m
      ELSE IF ~f.ok THEN f
      ELSE [ok |-> TRUE,
            value |-> [initial |-> i.value, medial |-> m.value,
                       final |-> f.value]]

\* variant: the regular expression is one shared object tested with
\* RegExp.prototype.test, whose g flag keeps lastIndex = 1 after a match, so
\* that the letter after a Korean letter is not matched
reducerSticky(a, l) ==
  IF MatchKorean(l) /\ ~(Len(a) > 0 /\ a[Len(a)].isKorean)
    THEN LET u == getUnicode(l)
             g == IF u.ok THEN splitGrapheme(u.value) ELSE u
         IN  IF ~g.ok THEN g
             ELSE [ok |-> TRUE,
                   value |-> Append(a,
                     [isKorean |-> TRUE,
                      initial |-> getInitialLetter(g.value.initial),
                      medial |-> getMedialLetter(g.value.medial),
                      final |-> getFinalLetter(g.value.final)]),
                   passed |-> <<g.value.initial + firstInitial,
                                g.value.medial + firstMedial,
                                g.value.final + firstFinal>>]
    ELSE [ok |-> TRUE,
          value |-> Append(a, [isKorean |-> FALSE, initial |-> l]),
          passed |-> <<>>]

\* the callback of reduce, lines 30-47, applied to the accumulator a and one
\* letter l: the new accumulator and the values handed to
\* getLetterFromUnicode on the way, or the Error thrown
reducer(a, l) ==
  IF MatchKorean(l)
    THEN LET u == getUnicode(l)
             g == IF u.ok THEN splitGrapheme(u.value) ELSE u
         IN  IF ~g.ok THEN g
             ELSE [ok |-> TRUE,
                   value |-> Append(a,
                     [isKorean |-> TRUE,
                      initial |-> getInitialLetter(g.value.initial),
                      medial |-> getMedialLetter(g.value.medial),
                      final |-> getFinalLetter(g.value.final)]),
                   passed |-> <<g.value.initial + firstInitial,
                                g.value.medial + firstMedial,
                                g.value.final + firstFinal>>]
    ELSE [ok |-> TRUE,
          value |-> Append(a, [isKorean |-> FALSE, initial |-> l]),
          passed |-> <<>>]

\* Array.prototype.reduce over the letters ls from position k on
RECURSIVE reduce(_, _, _)
reduce(ls, k, a) ==
  IF k > Len(ls) THEN [ok |-> TRUE, value |-> a]
  ELSE LET r == reducer(a, ls[k])
       IN  IF r.ok THEN reduce(ls, k + 1, r.value) ELSE r

\* getGraphemeList as a function of its argument
getGraphemeList(w) ==
  IF Len(w) < 1 THEN [ok |-> FALSE, error |-> "EmptyWord"]
  ELSE reduce(splitWord(w), 1, <<>>)

(***************************************************************************)
(* The state machine: one call of getGraphemeList, getUnicode or           *)
(* splitGrapheme.  codes holds, for every letter processed, the values     *)
(* handed to getLetterFromUnicode while processing it.                     *)
(***************************************************************************)
NoResult == "none"

Init ==
  /\ op \in {"getGraphemeList", "getUnicode", "splitGrapheme"}
  /\ word \in IF op = "getGraphemeList" THEN Strings ELSE {<<>>}
  /\ letter \in IF op = "getUnicode" THEN Strings ELSE {<<>>}
  /\ unicode \in IF op = "splitGrapheme" THEN Values ELSE {Undefined}
  /\ pc = "call"
  /\ letters = <<>>
  /\ idx = 1
  /\ arr = <<>>
  /\ codes = <<>>
  /\ result = NoResult
  /\ error = "none"

\* getGraphemeList, lines 26-30: the length check, then splitWord(word) and
\* the empty accumulator of reduce
GetGraphemeListEnter ==
  /\ op = "getGraphemeList" /\ pc = "call"
  /\ IF Len(word) < 1
       THEN /\ pc' = "thrown"
            /\ error' = "EmptyWord"
            /\ UNCHANGED letters
       ELSE /\ pc' = "reduce"
            /\ letters' = splitWord(word)
            /\ UNCHANGED error
  /\ UNCHANGED <<op, word, letter, unicode, idx, arr, codes, result>>

\* one call of the reduce callback, lines 30-47
ReduceStep ==
  /\ op = "getGraphemeList" /\ pc = "reduce" /\ idx <= Len(letters)
  /\ LET r == reducer(arr, letters[idx]) IN
       IF r.ok
         THEN /\ arr' = r.value
              /\ codes' = Append(codes, r.passed)
              /\ idx' = idx + 1
              /\ UNCHANGED <<pc, error>>
         ELSE /\ pc' = "thrown"
              /\ error' = r.error
              /\ UNCHANGED <<idx, arr, codes>>
  /\ UNCHANGED <<op, word, letter, unicode, letters, result>>

\* reduce returns the accumulator, getGraphemeList returns it
GetGraphemeListReturn ==
  /\ op = "getGraphemeList" /\ pc = "reduce" /\ idx > Len(letters)
  /\ pc' = "returned"
  /\ result' = arr
  /\ UNCHANGED <<op, word, letter, unicode, letters, idx, arr, codes, error>>

\* a direct call of getUnicode(letter)
GetUnicodeCall ==
  /\ op = "getUnicode" /\ pc = "call"
  /\ LET u == getUnicode(letter) IN
       IF u.ok THEN /\ pc' = "returned"
                    /\ result' = u.value.num
                    /\ UNCHANGED error
               ELSE /\ pc' = "thrown"
                    /\ error' = u.error
                    /\ UNCHANGED result
  /\ UNCHANGED <<op, word, letter, unicode, letters, idx, arr, codes>>

\* a direct call of splitGrapheme(unicode)
SplitGraphemeCall ==
  /\ op = "splitGrapheme" /\ pc = "call"
  /\ LET g == splitGrapheme(unicode) IN
       IF g.ok THEN /\ pc' = "returned"
                    /\ result' = g.value
                    /\ UNCHANGED error
               ELSE /\ pc' = "thrown"
                    /\ error' = g.error
                    /\ UNCHANGED result
  /\ UNCHANGED <<op, word, letter, unicode, letters, idx, arr, codes>>

Next ==
  \/ GetGraphemeListEnter
  \/ ReduceStep
  \/ GetGraphemeListReturn
  \/ GetUnicodeCall
  \/ SplitGraphemeCall

Spec == Init /\ [][Next]_vars

(***************************************************************************)
(* Vocabulary of the properties.                                           *)
(***************************************************************************)
\* a composed syllable, U+AC00..U+D7A3
IsSyllable(c) == c >= 44032 /\ c <= 55203

\* a standalone Jamo consonant, U+3131..U+314E
IsJamoConsonant(c) == c >= 12593 /\ c <= 12622

\* the positions of w at which a surrogate pair starts
PairStarts(w) ==
  {k \in 1..(Len(w) - 1) :
     /\ w[k] >= 55296 /\ w[k] <= 56319
     /\ w[k + 1] >= 56320 /\ w[k + 1] <= 57343}

\* the number of code points of the string w
NumCodePoints(w) == Len(w) - Cardinality(PairStarts(w))

\* the code point of a string that is one code point
ScalarOf(l) ==
  IF Len(l) = 2 THEN 65536 + (l[1] - 55296) * 1024 + (l[2] - 56320) ELSE l[1]

\* the concatenation of the strings of ls
RECURSIVE Concat(_)
Concat(ls) == IF Len(ls) = 0 THEN <<>> ELSE Head(ls) \o Concat(Tail(ls))

\* a call of splitGrapheme on a composed syllable has returned
SyllableSplit ==
  /\ op = "splitGrapheme" /\ pc = "returned"
  /\ IsSyllable(unicode.num)

\* the letters of the running or finished getGraphemeList call that the
\* callback has processed
Processed == IF op = "getGraphemeList" THEN 1..Len(arr) ELSE {}

\* a call of getGraphemeList has returned
Decomposed == op = "getGraphemeList" /\ pc = "returned"

C2_RoundTrip ==
  SyllableSplit =>
    result.initial * 21 * 28 + result.medial * 28 + result.final
      = unicode.num - 44032

C2_Witness ==
  /\ SyllableSplit
  /\ unicode.num = 54620
  /\ result = [initial |-> 18, medial |-> 0, final |-> 4]

(***************************************************************************)
(* C3.                                                                     *)
(***************************************************************************)
\* C3: a letter is classified as Korean if and only if its code point is in
\* U+3131..U+314E or U+AC00..U+D7A3, and every other letter yields the
\* record {isKorean: false, initial: <the letter>} with no other field
C3_Classification ==
  \A i \in Processed :
    LET c == ScalarOf(letters[i])
        korean == IsJamoConsonant(c) \/ IsSyllable(c)
    IN  /\ arr[i].isKorean <=> korean
        /\ ~korean => arr[i] = [isKorean |-> FALSE, initial |-> letters[i]]

(***************************************************************************)
(* C4.                                                                     *)
(***************************************************************************)
\* C4: for every non-empty input getGraphemeList returns one record per code
\* point of the input, in input order, and the i-th record is the single
\* record getGraphemeList returns for the i-th letter alone
C4_OnePerLetter ==
  Decomposed =>
    /\ Len(result) = NumCodePoints(word)
    /\ Len(letters) = NumCodePoints(word)
    /\ Concat(letters) = word
    /\ \A i \in 1..Len(result) :
         LET one == getGraphemeList(letters[i])
         IN  /\ NumCodePoints(letters[i]) = 1
             /\ one.ok
             /\ one.value = <<result[i]>>

C4_Witness ==
  /\ Decomposed
  /\ word = <<55357, 56832, 12593>>
  /\ Len(result) = 2
  /\ result[2].isKorean

(***************************************************************************)
(* C5.                                                                     *)
(***************************************************************************)
\* C5: getGraphemeList raises an error if and only if its input has zero
\* length: on the empty string it throws before processing any letter and
\* returns nothing, on a non-empty string no step throws (neither the check
\* of getUnicode nor the checks of the index primitives) and the call can
\* always go on until it has returned
C5_ThrowsIffEmpty ==
  op = "getGraphemeList" =>
    /\ pc = "thrown" =>
         /\ Len(word) = 0
         /\ error = "EmptyWord"
         /\ letters = <<>> /\ arr = <<>> /\ codes = <<>>
         /\ result = NoResult
    /\ (Len(word) = 0 /\ pc # "call") => pc = "thrown"
    /\ (Len(word) > 0 /\ pc # "call") =>
         /\ pc \in {"reduce", "returned"}
         /\ error = "none"
         /\ pc = "reduce" => ENABLED (ReduceStep \/ GetGraphemeListReturn)
         /\ pc = "returned" => Len(result) = Len(letters)

C5_Witness ==
  /\ op = "getGraphemeList" /\ pc = "returned"
  /\ word = <<55357, 56832, 54620>>
  /\ error = "none"
  /\ Len(result) = 2

(***************************************************************************)
(* C6.                                                                     *)
(***************************************************************************)
\* C6: for every composed syllable c with offset = c - 0xAC00 the record is
\* {isKorean: true, initial: char(0x1100 + floor(offset / (21*28))),
\* medial: char(0x1161 + (floor(offset / 28) mod 21)),
\* final: char(0x11A7 + (offset mod 28))}, all three fields present; with
\* final index 0 the final field is the character U+11A7
C6_SyllableRecord ==
  \A i \in Processed :
    IsSyllable(ScalarOf(letters[i])) =>
      LET offset == ScalarOf(letters[i]) - 44032
      IN  /\ arr[i] = [isKorean |-> TRUE,
                       initial |-> <<4352 + (offset \div (21 * 28))>>,
                       medial |-> <<4449 + ((offset \div 28) % 21)>>,
                       final |-> <<4519 + (offset % 28)>>]
          /\ offset % 28 = 0 => arr[i].final = <<4519>>

C6_Witness ==
  /\ Decomposed
  /\ word = <<44032>>
  /\ result = <<[isKorean |-> TRUE, initial |-> <<4352>>,
                 medial |-> <<4449>>, final |-> <<4519>>]>>

(***************************************************************************)
(* C7.                                                                     *)
(***************************************************************************)
\* the records of U+D55C and U+AE00 with the characters the scenarios print:
\* U+314E, U+314F, U+3134 and U+3131, U+3161, U+3139
C7_HanPrinted ==
  [isKorean |-> TRUE, initial |-> <<12622>>, medial |-> <<12623>>,
   final |-> <<12596>>]

C7_GeulPrinted ==
  [isKorean |-> TRUE, initial |-> <<12593>>, medial |-> <<12641>>,
   final |-> <<12601>>]

\* the records the program builds: U+1112, U+1161, U+11AB and U+1100,
\* U+1173, U+11AF
C7_HanJamo ==
  [isKorean |-> TRUE, initial |-> <<4370>>, medial |-> <<4449>>,
   final |-> <<4523>>]

C7_GeulJamo ==
  [isKorean |-> TRUE, initial |-> <<4352>>, medial |-> <<4467>>,
   final |-> <<4527>>]

\* C7 as stated: the scenarios hold with the component characters U+314E,
\* U+314F, U+3134 for U+D55C and U+3131, U+3161, U+3139 for U+AE00
C7_AsStated ==
  Decomposed =>
    /\ word = <<54620>> => result = <<C7_HanPrinted>>
    /\ word = <<44544>> => result = <<C7_GeulPrinted>>
    /\ word = <<97, 54620, 49>> =>
         result = <<[isKorean |-> FALSE, initial |-> <<97>>], C7_HanPrinted,
                    [isKorean |-> FALSE, initial |-> <<49>>]>>

\* C7 amended: the scenarios hold with the components as characters of the
\* Hangul Jamo block: U+1112, U+1161, U+11AB for U+D55C and U+1100, U+1173,
\* U+11AF for U+AE00
C7_Scenarios ==
  Decomposed =>
    /\ word = <<54620>> => result = <<C7_HanJamo>>
    /\ word = <<44544>> => result = <<C7_GeulJamo>>
    /\ word = <<97, 54620, 49>> =>
         result = <<[isKorean |-> FALSE, initial |-> <<97>>], C7_HanJamo,
                    [isKorean |-> FALSE, initial |-> <<49>>]>>

C7_Witness ==
  /\ Decomposed
  /\ word = <<97, 54620, 49>>
  /\ Len(result) = 3
  /\ result[2] = C7_HanJamo

(***************************************************************************)
(* C8.                                                                     *)
(***************************************************************************)
\* C8: getUnicode(letter) succeeds exactly when letter is exactly one code
\* point, then returning its scalar value, and throws when letter has zero
\* or more than one code point; also for code points above U+FFFF
C8_OneCodePoint ==
  (op = "getUnicode" /\ pc # "call") =>
    /\ pc = "returned" <=> NumCodePoints(letter) = 1
    /\ pc = "thrown" <=> NumCodePoints(letter) # 1
    /\ pc = "returned" => result = ScalarOf(letter)

(***************************************************************************)
(* C9.                                                                     *)
(***************************************************************************)
\* the record built from the values handed to getLetterFromUnicode
RecordOfCodes(cs) ==
  [isKorean |-> TRUE, initial |-> <<cs[1] % 65536>>,
   medial |-> <<cs[2] % 65536>>, final |-> <<cs[3] % 65536>>]

\* the arithmetic of the composed syllables, on any offset
SameArithmetic(c, cs) ==
  LET offset == c - 44032
  IN  /\ cs[1] - 4352 = offset \div (21 * 28)
      /\ offset < 0 =>
           /\ (cs[2] - 4449) * 28 <= 0 - ((0 - offset) % (21 * 28))
           /\ (cs[2] - 4449) * 28 > 0 - ((0 - offset) % (21 * 28)) - 28
           /\ cs[3] - 4519 = 0 - ((0 - offset) % 28)

\* C9 as stated: for every standalone Jamo consonant no error is raised and
\* a Variant A record is built by the same arithmetic from a negative
\* offset, with the initial index outside [0,18), the medial index outside
\* [0,21) and the final index outside [0,28)
C9_AsStated ==
  \A i \in Processed :
    IsJamoConsonant(ScalarOf(letters[i])) =>
      LET cs == codes[i]
      IN  /\ error = "none"
          /\ Len(cs) = 3
          /\ arr[i] = RecordOfCodes(cs)
          /\ SameArithmetic(ScalarOf(letters[i]), cs)
          /\ ~(cs[1] - 4352 >= 0 /\ cs[1] - 4352 < 18)
          /\ ~(cs[2] - 4449 >= 0 /\ cs[2] - 4449 < 21)
          /\ ~(cs[3] - 4519 >= 0 /\ cs[3] - 4519 < 28)

\* C9 amended: as stated, except that the final index is outside [0,28) for
\* every standalone Jamo consonant but U+3148, whose offset is a multiple of
\* 28 and whose final index is 0 (final character U+11A7)
C9_JamoIndices ==
  \A i \in Processed :
    IsJamoConsonant(ScalarOf(letters[i])) =>
      LET cs == codes[i]
      IN  /\ error = "none"
          /\ Len(cs) = 3
          /\ arr[i] = RecordOfCodes(cs)
          /\ SameArithmetic(ScalarOf(letters[i]), cs)
          /\ ~(cs[1] - 4352 >= 0 /\ cs[1] - 4352 < 18)
          /\ ~(cs[2] - 4449 >= 0 /\ cs[2] - 4449 < 21)
          /\ IF ScalarOf(letters[i]) = 12616
               THEN cs[3] - 4519 = 0 /\ arr[i].final = <<4519>>
               ELSE ~(cs[3] - 4519 >= 0 /\ cs[3] - 4519 < 28)

C9_Witness ==
  /\ Decomposed
  /\ word = <<12616>>
  /\ codes = <<<<4352 - 54, 4449 - 9, 4519>>>>
  /\ result[1].isKorean

(***************************************************************************)
(* C10.                                                                    *)
(***************************************************************************)
\* C10: every value handed to getLetterFromUnicode during getGraphemeList is
\* a code point of the Hangul Jamo block U+1100..U+11FF: the initial value
\* among the entries from 0x1100, the medial value among the entries from
\* 0x1161, the final value among the entries from 0x11A7
C10_InJamoBlock ==
  \A i \in Processed :
    Len(codes[i]) = 3 =>
      /\ \A k \in 1..3 : codes[i][k] >= 4352 /\ codes[i][k] <= 4607
      /\ codes[i][1] >= 4352
      /\ codes[i][2] >= 4449
      /\ codes[i][3] >= 4519

====
